---- MODULE Spec2Model ----
(***************************************************************************)
(* Selection state of the proof facilitator: the selection reducer of      *)
(* core/ProofStateSelectionContext.ts, the ids minted by the ProofState    *)
(* component, and the click handlers of MathStatement and MathExpression   *)
(* that dispatch to it.                                                    *)
(*                                                                         *)
(* JavaScript values are modelled with their run-time type: a record field *)
(* js is "string", "number" or "object"; an object that the code compares  *)
(* with === carries the reference ref it was allocated under.              *)
(***************************************************************************)
EXTENDS Integers, Sequences, FiniteSets, TLC

\* ---------------------------------------------------------------- bounds
\* Renders of the ProofState component that are followed (each mints ids).
MaxRender == 2
\* Entries the selection array may hold (inserts beyond it are not followed).
MaxSelections == 2
MaxNodes == 3
MaxAddressLen == 2
MaxChildren == 2
MaxBoxes == 3
MaxInputLen == 5
MaxLoads == 2
MaxCompiles == 2
MaxVariables == 2
MaxStatements == 1

VARIABLES
  selections,  \* the reducer state: ProofStateSelection[]
  render,      \* number of the current render of the ProofState components
  origin,      \* history: for each entry of selections, the part it was clicked in
  last,        \* history: the last event, its arguments and the state before it
  proofDiscoveryState,  \* the ProofDiscoveryState the caller holds (its graph is shared)
  given,       \* history: the node ids given to inserted nodes so far
  glast,       \* history: the last proof-discovery action and the state before it
  probe,       \* a function under study: its name, its arguments, what it returned
  wasmRef,     \* the ref the WasmContext carries: its current is null or the compiler
  wasmLoaded,  \* the state of ProofStateContextProvider
  loads,       \* the invocations of loadWasm(wasmRef), each with the place it has reached
  engine,      \* the engine module: calls of its init and of its compile function
  shown        \* history: the last render, what it returned and the state before it

selectionVars == <<selections, render, origin, last>>
discoveryVars == <<proofDiscoveryState, given, glast>>
engineVars == <<wasmRef, wasmLoaded, loads, engine, shown>>
vars == <<selections, render, origin, last, proofDiscoveryState, given, glast, probe,
          wasmRef, wasmLoaded, loads, engine, shown>>

\* A value that stands for "no such argument" in the history record.
None == [none |-> TRUE]

\* ------------------------------------------------------- proof state ids
\* core/ProofStateIdContext.ts: the context MathStatement and MathExpression
\* read; its default value, a number.
ProofStateIdContextDefault == -1

NumberValue(v) == [js |-> "number", value |-> v]

\* core/ProofDiscoveryStateContext.ts: ProofStateId = { proofNodeId, proofContextId }.
\* ref is the identity of the object literal.
ProofStateIdObject(ref, n, c) ==
  [js |-> "object", ref |-> ref, proofNodeId |-> n, proofContextId |-> c]

\* The parts (proof node, context index) that are on screen: ProofState
\* components for node 0 (two contexts) and node 1 (one context).
RenderedParts ==
  { [proofNodeId |-> 0, proofContextId |-> 0],
    [proofNodeId |-> 0, proofContextId |-> 1],
    [proofNodeId |-> 1, proofContextId |-> 0] }

\* ProofState.tsx:248: value={{ proofNodeId, proofContextId: idx }}, a fresh
\* object literal on every render r of the component.
ProvidedProofStateId(r, part) ==
  ProofStateIdObject(<<r, part.proofNodeId, part.proofContextId>>,
                     part.proofNodeId, part.proofContextId)

\* JavaScript a === b on proof state ids: numbers by value, objects by reference.
StrictEquals(a, b) ==
  IF a.js = "object" /\ b.js = "object" THEN a.ref = b.ref
  ELSE IF a.js = "number" /\ b.js = "number" THEN a.value = b.value
  ELSE FALSE

\* ------------------------------------------------------------- addresses
StringCoordinate(s) == [js |-> "string", value |-> s]
IndexedCoordinate(k, i) == [js |-> "object", kind |-> k, idx |-> i]

\* A comparison of the tags alone.
areStatementCoordinateKindsEqual(a, b) ==
  IF a.js = "string" /\ b.js = "string" THEN a.value = b.value
  ELSE IF a.js = "object" /\ b.js = "object" THEN a.kind = b.kind
  ELSE FALSE

areStatementCoordinatesEqual(a, b) ==
  IF a.js = "string" /\ b.js = "string" THEN a.value = b.value
  ELSE IF a.js = "object" /\ b.js = "object" THEN a.kind = b.kind /\ a.idx = b.idx
  ELSE FALSE

\* A comparison of the coordinates of a alone: no test of the lengths.
isStatementAddressPrefix(a, b) ==
  \A i \in 1..Len(a) : i <= Len(b) /\ areStatementCoordinatesEqual(a[i], b[i])

areStatementAddressesEqual(a, b) ==
  IF Len(a) # Len(b) THEN FALSE
  ELSE \A i \in 1..Len(a) : areStatementCoordinatesEqual(a[i], b[i])

\* -------------------------------------------------------------- payloads
AtomicStatement(s) == [js |-> "string", value |-> s]
\* A compound statement is an object: ref is its identity in the proof state.
NegationStatement(ref, s) ==
  [js |-> "object", ref |-> ref, kind |-> "negation", statement |-> s]
SubExpressionCoreWithIndex(t, s, e, i) ==
  [js |-> "object", text |-> t, source_start |-> s, source_end |-> e, index |-> i]

\* typeof p === "object" && "text" in p
IsSubExpressionPayload(p) == p.js = "object" /\ "text" \in DOMAIN p

\* The comparison of SubExpressionCore alone, the formula index left out.
areSubExpressionCoresEqual(a, b) ==
  /\ a.text = b.text
  /\ a.source_start = b.source_start
  /\ a.source_end = b.source_end

areSubExpressionSelectionsEqual(a, b) ==
  /\ a.text = b.text
  /\ a.source_start = b.source_start
  /\ a.source_end = b.source_end
  /\ a.index = b.index

\* ------------------------------------------------------------ selections
ProofStateLocation(k, l) == [kind |-> k, label |-> l]

ProofStateSelection(id, loc, addr, payload) ==
  [proofStateId |-> id, location |-> loc, address |-> addr, selection |-> payload]

\* An equality that compares the payloads in every case.
areProofStateSelectionsEqualByPayload(a, b) ==
  /\ StrictEquals(a.proofStateId, b.proofStateId)
  /\ a.location.kind = b.location.kind
  /\ a.location.label = b.location.label
  /\ areStatementAddressesEqual(a.address, b.address)
  /\ a.selection = b.selection

areProofStateSelectionsEqual(a, b) ==
  /\ StrictEquals(a.proofStateId, b.proofStateId)
  /\ a.location.kind = b.location.kind
  /\ a.location.label = b.location.label
  /\ areStatementAddressesEqual(a.address, b.address)
  /\ IF IsSubExpressionPayload(a.selection) /\ IsSubExpressionPayload(b.selection)
     THEN areSubExpressionSelectionsEqual(a.selection, b.selection)
     ELSE TRUE

\* A search that starts at the second entry.
FindIndexSkippingFirst(state, sel) ==
  LET hits == { i \in 2..Len(state) : areProofStateSelectionsEqual(state[i], sel) }
  IN  IF hits = {} THEN -1
      ELSE (CHOOSE i \in hits : \A j \in hits : i <= j) - 1

\* Array.prototype.findIndex with the equality predicate: the 0-based index of
\* the first equal entry, -1 when there is none.
FindIndex(state, sel) ==
  LET hits == { i \in 1..Len(state) : areProofStateSelectionsEqual(state[i], sel) }
  IN  IF hits = {} THEN -1
      ELSE (CHOOSE i \in hits : \A j \in hits : i <= j) - 1

\* splice(index) without the delete count: drops every entry from index on.
SpliceRest(state, index) == SubSeq(state, 1, index)

\* [...state] followed by splice(index, 1), index 0-based.
SpliceOne(state, index) ==
  [ i \in 1..(Len(state) - 1) |-> IF i <= index THEN state[i] ELSE state[i + 1] ]

\* A filter that keeps the entries of another proof node only.
FilterOtherProofNode(state, id) ==
  SelectSeq(state, LAMBDA s : s.proofStateId.proofNodeId # id.proofNodeId)

\* Array.prototype.filter keeping the entries of another proof state id.
FilterOtherProofState(state, id) ==
  SelectSeq(state, LAMBDA s : ~StrictEquals(s.proofStateId, id))

ToggleSelection(sel) == [type |-> "TOGGLE_SELECTION", selection |-> sel]
ClearAllSelections == [type |-> "CLEAR_ALL_SELECTIONS"]
ClearProofStateSelections(id) ==
  [type |-> "CLEAR_PROOF_STATE_SELECTIONS", proofStateId |-> id]

proofStateSelectionReducer(state, action) ==
  CASE action.type = "TOGGLE_SELECTION" ->
         LET existingIndex == FindIndex(state, action.selection)
         IN  IF existingIndex >= 0
             THEN SpliceOne(state, existingIndex)
             ELSE Append(state, action.selection)
    [] action.type = "CLEAR_ALL_SELECTIONS" -> << >>
    [] action.type = "CLEAR_PROOF_STATE_SELECTIONS" ->
         FilterOtherProofState(state, action.proofStateId)
    [] OTHER -> state

\* ------------------------------------------------ the reducer, dispatched
\* Locations, addresses and payloads the dispatched selections are drawn from.
Locations == { ProofStateLocation("hypothesis", "h") }

RootAddress == << >>
Addresses == { RootAddress, << StringCoordinate("negation") >> }

Payloads ==
  { AtomicStatement("A"), AtomicStatement("B"),
    SubExpressionCoreWithIndex("x", 0, 1, 0),
    SubExpressionCoreWithIndex("y", 2, 3, 0) }

\* The selections a handler can build in render r with the id ProofState provides.
BuiltSelections(r) ==
  { ProofStateSelection(ProvidedProofStateId(r, part), loc, addr, p) :
      part \in RenderedParts, loc \in Locations, addr \in Addresses, p \in Payloads }

\* Every proof state id minted up to render r.
MintedProofStateIds(r) ==
  { ProvidedProofStateId(q, part) : q \in 1..r, part \in RenderedParts }

\* ------------------------------------------------ the proof discovery graph
\* A graphology Graph<ProofNode, MoveDescription> (mixed, simple): the node
\* attributes by key and the edges in the order they were added.
EmptyGraph == [nodes |-> << >>, edges |-> << >>]

\* graph.order and graph.size
Order(g) == Cardinality(DOMAIN g.nodes)
Size(g) == Len(g.edges)

\* graph.hasNode(node)
HasNodeAlways(g, node) == TRUE
HasNode(g, node) == node \in DOMAIN g.nodes

\* The outcome of a call that mutates the graph: whether it threw, and the
\* graph it left.
Done(g) == [threw |-> FALSE, graph |-> g]
Thrown(g) == [threw |-> TRUE, graph |-> g]

\* graph.clear()
KeepGraph(g) == g
Clear(g) == EmptyGraph

\* graph.addNode(node, attributes): throws when the node is in the graph.
AddNode(g, node, attributes) ==
  IF node \in DOMAIN g.nodes THEN Thrown(g)
  ELSE Done([g EXCEPT !.nodes = g.nodes @@ (node :> attributes)])

\* graph.setNodeAttribute(node, 'proofState', value): throws when the node is
\* not in the graph.
SetEveryNodeAttribute(g, node, value) ==
  Done([g EXCEPT !.nodes = [k \in DOMAIN g.nodes |-> [proofState |-> value]]])
SetNodeAttribute(g, node, value) ==
  IF node \notin DOMAIN g.nodes THEN Thrown(g)
  ELSE Done([g EXCEPT !.nodes[node].proofState = value])

\* An edge of the kind between source and target is in the graph.
HasEdge(g, undirected, source, target) ==
  \E i \in 1..Len(g.edges) :
    /\ g.edges[i].undirected = undirected
    /\ \/ g.edges[i].source = source /\ g.edges[i].target = target
       \/ undirected /\ g.edges[i].source = target /\ g.edges[i].target = source

\* graph.addDirectedEdge / graph.addUndirectedEdge (source, target, attributes):
\* throws when an end is not in the graph or the edge is there already.
AddEdgeInPlaceOfOthers(g, undirected, source, target, attributes) ==
  IF source \notin DOMAIN g.nodes \/ target \notin DOMAIN g.nodes THEN Thrown(g)
  ELSE Done([g EXCEPT !.edges =
               << [source |-> source, target |-> target,
                   undirected |-> undirected, attributes |-> attributes] >>])
AddEdge(g, undirected, source, target, attributes) ==
  IF source \notin DOMAIN g.nodes \/ target \notin DOMAIN g.nodes THEN Thrown(g)
  ELSE IF HasEdge(g, undirected, source, target) THEN Thrown(g)
  ELSE Done([g EXCEPT !.edges =
               Append(g.edges, [source |-> source, target |-> target,
                                undirected |-> undirected,
                                attributes |-> attributes])])

MoveKinds == { "strengthening", "weakening", "equivalence", "other" }
MoveDescription(kind, description) == [kind |-> kind, description |-> description]

nullProofDiscoveryState ==
  [statement |-> "", graph |-> EmptyGraph, currentNodeId |-> -1, isSolved |-> FALSE]

\* What a call of the reducer leaves: whether it threw, and the state the
\* caller holds afterwards - the returned one, or, after a throw, the one it
\* passed, whose graph holds whatever was done to it before the throw.
\* same: the value returned is the very object that was passed (return state).
Returned(state) == [threw |-> FALSE, state |-> state, same |-> FALSE]
ReturnedGiven(state) == [threw |-> FALSE, state |-> state, same |-> TRUE]
Threw(state, g) == [threw |-> TRUE, state |-> [state EXCEPT !.graph = g], same |-> TRUE]

\* case "initialize"
ReduceInitialize(state, action) ==
  LET cleared == IF Order(state.graph) > 0 THEN Clear(state.graph) ELSE state.graph
      added == AddNode(cleared, 0, [proofState |-> action.proofState])
  IN  IF added.threw THEN Threw(state, added.graph)
      ELSE Returned([state EXCEPT !.graph = added.graph,
                                  !.statement = action.statement,
                                  !.currentNodeId = 0,
                                  !.isSolved = FALSE])

\* case "repair"
ReduceRepair(state, action) ==
  IF ~HasNode(state.graph, action.nodeId) THEN Threw(state, state.graph)
  ELSE LET set == SetNodeAttribute(state.graph, action.nodeId, action.newProofState)
       IN  IF set.threw THEN Threw(state, set.graph)
           ELSE ReturnedGiven([state EXCEPT !.graph = set.graph])

\* case "focus"
ReduceFocusAndUnsolve(state, action) ==
  Returned([state EXCEPT !.currentNodeId = action.nodeId, !.isSolved = FALSE])
ReduceFocus(state, action) ==
  IF ~HasNode(state.graph, action.nodeId) THEN Threw(state, state.graph)
  ELSE Returned([state EXCEPT !.currentNodeId = action.nodeId])

\* const newNodeId = state.graph.order
NewNodeIdAfterGap(state) == Order(state.graph) + 1
NewNodeIdOfLast(state) == Order(state.graph) - 1
NewNodeId(state) == Order(state.graph)

\* switch (action.move.kind): the edge between the new node and the current one.
TransitionEdgeFromNew(g, move, newNodeId, currentNodeId) ==
  AddEdge(g, FALSE, newNodeId, currentNodeId, move)
TransitionEdgeUnlessOther(g, move, newNodeId, currentNodeId) ==
  CASE move.kind = "strengthening" -> AddEdge(g, FALSE, newNodeId, currentNodeId, move)
    [] move.kind = "weakening" -> AddEdge(g, FALSE, currentNodeId, newNodeId, move)
    [] move.kind = "equivalence" -> AddEdge(g, TRUE, newNodeId, currentNodeId, move)
    [] OTHER -> Done(g)
TransitionEdgeAtNewNode(g, move, newNodeId, currentNodeId) ==
  AddEdge(g, FALSE, newNodeId, newNodeId, move)
TransitionEdge(g, move, newNodeId, currentNodeId) ==
  CASE move.kind = "strengthening" -> AddEdge(g, FALSE, newNodeId, currentNodeId, move)
    [] move.kind = "weakening" -> AddEdge(g, FALSE, currentNodeId, newNodeId, move)
    [] move.kind = "equivalence" -> AddEdge(g, TRUE, newNodeId, currentNodeId, move)
    [] move.kind = "other" -> AddEdge(g, FALSE, newNodeId, currentNodeId, move)
    [] OTHER -> Done(g)

\* case "transition"
ReduceTransition(state, action) ==
  LET newNodeId == NewNodeId(state)
      added == AddNode(state.graph, newNodeId, [proofState |-> action.newProofState])
      edged == TransitionEdge(added.graph, action.move, newNodeId, state.currentNodeId)
  IN  IF added.threw THEN Threw(state, added.graph)
      ELSE IF edged.threw THEN Threw(state, edged.graph)
      ELSE Returned([state EXCEPT !.graph = edged.graph,
                                  !.currentNodeId = newNodeId])

\* case "finish"
ReduceFinishAtRoot(state, action) ==
  Returned([state EXCEPT !.isSolved = TRUE, !.currentNodeId = 0])
ReduceFinish(state, action) == Returned([state EXCEPT !.isSolved = TRUE])

proofDiscoveryStateReducer(state, action) ==
  CASE action.action = "initialize" -> ReduceInitialize(state, action)
    [] action.action = "repair" -> ReduceRepair(state, action)
    [] action.action = "focus" -> ReduceFocus(state, action)
    [] action.action = "transition" -> ReduceTransition(state, action)
    [] action.action = "finish" -> ReduceFinish(state, action)
    [] OTHER -> ReturnedGiven(state)

\* The values the actions are called with.
ProofStates == { "P", "Q" }
ProblemStatements == { "s", "t" }
NodeIdArguments == -1..MaxNodes
Moves == { MoveDescription(kind, "d") : kind \in MoveKinds }

NoDiscoveryEvent ==
  [action |-> [action |-> "none"], threw |-> FALSE, same |-> TRUE,
   before |-> nullProofDiscoveryState, givenBefore |-> {}, inserted |-> {}]

NoEvent ==
  [type |-> "NONE", selection |-> None, proofStateId |-> None,
   before |-> << >>, twice |-> FALSE, before2 |-> << >>,
   part |-> None, address |-> None, point |-> None, hit |-> -1,
   subSelection |-> None, removedFrom |-> {}]

\* No function is under study.
NoProbe == [fn |-> "none"]

\* Nothing has been rendered yet.
NotRendered ==
  [component |-> "none", output |-> "none", compiled |-> FALSE,
   initCalls |-> 0, initDone |-> 0, initPending |-> FALSE]

\* The selection state and the proof-discovery state after construction.
InitProgram ==
  /\ selections = << >>
  /\ render = 1
  /\ origin = << >>
  /\ last = NoEvent
  /\ proofDiscoveryState = nullProofDiscoveryState
  /\ given = {}
  /\ glast = NoDiscoveryEvent
  /\ wasmRef = [current |-> None]
  /\ wasmLoaded = FALSE
  /\ loads = << >>
  /\ engine = [initCalls |-> 0, initDone |-> 0, compileCalls |-> 0]
  /\ shown = NotRendered

Init == InitProgram /\ probe = NoProbe

\* The ProofState components render again: fresh id objects are provided.
Render ==
  /\ render < MaxRender
  /\ render' = render + 1
  /\ last' = [NoEvent EXCEPT !.type = "RENDER", !.before = selections]
  /\ UNCHANGED <<selections, origin, discoveryVars, probe, engineVars>>

\* dispatch({ type: 'TOGGLE_SELECTION', selection: sel })
DispatchToggle(sel) ==
  LET next == proofStateSelectionReducer(selections, ToggleSelection(sel))
      again == last.type = "TOGGLE_SELECTION" /\ last.selection = sel
  IN  /\ Len(next) <= MaxSelections
      /\ selections' = next
      /\ last' = [NoEvent EXCEPT !.type = "TOGGLE_SELECTION", !.selection = sel,
                                 !.before = selections, !.twice = again,
                                 !.before2 = IF again THEN last.before ELSE << >>]
      /\ UNCHANGED <<render, origin, discoveryVars, probe, engineVars>>

\* dispatch({ type: 'CLEAR_ALL_SELECTIONS' })
DispatchClearAll ==
  /\ selections' = proofStateSelectionReducer(selections, ClearAllSelections)
  /\ last' = [NoEvent EXCEPT !.type = "CLEAR_ALL_SELECTIONS", !.before = selections]
  /\ UNCHANGED <<render, origin, discoveryVars, probe, engineVars>>

\* dispatch({ type: 'CLEAR_PROOF_STATE_SELECTIONS', proofStateId: id })
DispatchClearProofState(id) ==
  /\ selections' =
       proofStateSelectionReducer(selections, ClearProofStateSelections(id))
  /\ last' = [NoEvent EXCEPT !.type = "CLEAR_PROOF_STATE_SELECTIONS",
                             !.proofStateId = id, !.before = selections]
  /\ UNCHANGED <<render, origin, discoveryVars, probe, engineVars>>

Toggle == \E sel \in BuiltSelections(render) : DispatchToggle(sel)
ClearAll == DispatchClearAll
ClearProofState == \E id \in MintedProofStateIds(render) : DispatchClearProofState(id)

Next == Render \/ Toggle \/ ClearAll \/ ClearProofState

Spec == Init /\ [][Next]_vars

\* ------------------------------------------- the equality rule, probed
\* A second specification of the same reducer: one entry is inserted and
\* a second selection is toggled against it, both drawn from a set in which
\* every compared field varies on its own.
EqualityIds(r) ==
  { NumberValue(ProofStateIdContextDefault),
    ProvidedProofStateId(r, [proofNodeId |-> 0, proofContextId |-> 0]) }

EqualityLocations ==
  { ProofStateLocation("hypothesis", "h"), ProofStateLocation("goal", "h"),
    ProofStateLocation("hypothesis", "g") }

EqualityAddresses ==
  { RootAddress,
    << IndexedCoordinate("conjunction", 0) >>,
    << IndexedCoordinate("conjunction", 1) >>,
    << IndexedCoordinate("disjunction", 0) >>,
    << StringCoordinate("negation") >> }

EqualityPayloads ==
  { AtomicStatement("A"), AtomicStatement("B"),
    SubExpressionCoreWithIndex("x", 1, 3, 0),
    SubExpressionCoreWithIndex("x", 1, 3, 1),
    SubExpressionCoreWithIndex("y", 1, 3, 0),
    SubExpressionCoreWithIndex("x", 1, 4, 0),
    SubExpressionCoreWithIndex("x", 0, 3, 0) }

EqualitySelections(r) ==
  { ProofStateSelection(id, loc, addr, p) :
      id \in EqualityIds(r), loc \in EqualityLocations,
      addr \in EqualityAddresses, p \in EqualityPayloads }

\* The entries the probe inserts first: both kinds of id, an indexed and a
\* string coordinate, a full statement and a sub-expression.
EqualityBases(r) ==
  { ProofStateSelection(id, ProofStateLocation("hypothesis", "h"), addr, p) :
      id \in EqualityIds(r),
      addr \in { << IndexedCoordinate("conjunction", 0) >>,
                 << StringCoordinate("negation") >> },
      p \in { AtomicStatement("A"), SubExpressionCoreWithIndex("x", 1, 3, 0) } }

ToggleProbe ==
  \/ /\ selections = << >>
     /\ \E sel \in EqualityBases(render) : DispatchToggle(sel)
  \/ /\ Len(selections) = 1
     /\ \E sel \in EqualitySelections(render) : DispatchToggle(sel)

NextEquality == Render \/ ToggleProbe \/ ClearAll

SpecEquality == Init /\ [][NextEquality]_vars

\* --------------------------------------------------- the components, clicked
\* MathStatement.tsx:29 and MathExpression: useContext(ProofStateIdContext) of
\* core/ProofStateIdContext.ts. No Provider of that context is rendered (the
\* ProofState component provides the context of ProofDiscoveryStateContext.ts),
\* so the hook returns the default value.
UseContextProofStateId(r, part) == NumberValue(ProofStateIdContextDefault)

\* The proof state on screen: every context holds one hypothesis "h", the
\* negation of an atomic statement, and one variable "v" whose name is a formula.
\* ProofState.tsx:123 and :29, the ProofStateLocationContext providers.
HypothesisLocation == ProofStateLocation("hypothesis", "h")
VariableLocation == ProofStateLocation("variable", "v")

AtomicText(part) == IF part.proofContextId = 0 THEN "A" ELSE "B"

HypothesisStatement(part) ==
  NegationStatement(<<part.proofNodeId, part.proofContextId>>,
                    AtomicStatement(AtomicText(part)))

\* MathStatement.tsx:71-73 and :152: renderChild(statement.statement, "negation").
NegationAddress == << StringCoordinate("negation") >>
SegmentAddresses == { RootAddress, NegationAddress }

StatementAt(part, addr) ==
  IF addr = RootAddress THEN HypothesisStatement(part)
  ELSE HypothesisStatement(part).statement

\* The sub-expressions the typesetting engine reports for a formula: the whole
\* formula and a part nested in it.
FormulaSubExpressions ==
  << [text |-> "x + y", source_start |-> 0, source_end |-> 5,
      x |-> 0, y |-> 0, width |-> 10, height |-> 10],
     [text |-> "y", source_start |-> 4, source_end |-> 5,
      x |-> 2, y |-> 2, width |-> 4, height |-> 4] >>

\* MathExpression: INTERNAL_PADDING, by which attachSvg widens the viewBox.
INTERNAL_PADDING == 1

\* svg.viewBox.baseVal and svg.getBoundingClientRect() of the mounted formula.
ViewBox ==
  [x |-> 0 - INTERNAL_PADDING, y |-> 0 - INTERNAL_PADDING,
   width |-> 10 + 2 * INTERNAL_PADDING, height |-> 10 + 2 * INTERNAL_PADDING]
ClientRect == [left |-> 100, top |-> 50, width |-> 6, height |-> 6]

\* Pointer positions (clientX, clientY): over the nested part, over the whole
\* formula only, and over the padding.
ClickPoints ==
  { [clientX |-> 103, clientY |-> 53],
    [clientX |-> 101, clientY |-> 51],
    [clientX |-> 100, clientY |-> 50] }

\* A hit test that takes a point on an edge of a box to be outside it.
RECURSIVE FindSmallestStrictlyInsideFrom(_, _, _, _, _, _)
FindSmallestStrictlyInsideFrom(subexprs, x, y, i, idx, bestArea) ==
  IF i > Len(subexprs) THEN idx
  ELSE LET s == subexprs[i]
           inside == x > s.x /\ x < s.x + s.width /\ y > s.y /\ y < s.y + s.height
           area == s.width * s.height
       IN  IF inside /\ (idx = -1 \/ area < bestArea)
           THEN FindSmallestStrictlyInsideFrom(subexprs, x, y, i + 1, i - 1, area)
           ELSE FindSmallestStrictlyInsideFrom(subexprs, x, y, i + 1, idx, bestArea)

\* A hit test in which a later box of the same area takes over.
RECURSIVE FindSmallestLastFrom(_, _, _, _, _, _)
FindSmallestLastFrom(subexprs, x, y, i, idx, bestArea) ==
  IF i > Len(subexprs) THEN idx
  ELSE LET s == subexprs[i]
           inside == x >= s.x /\ x <= s.x + s.width /\ y >= s.y /\ y <= s.y + s.height
           area == s.width * s.height
       IN  IF inside /\ (idx = -1 \/ area <= bestArea)
           THEN FindSmallestLastFrom(subexprs, x, y, i + 1, i - 1, area)
           ELSE FindSmallestLastFrom(subexprs, x, y, i + 1, idx, bestArea)

\* MathExpression.findSmallestAtPoint: the forEach loop from entry i on, with
\* the running idx and bestArea (idx = -1 stands for bestArea = Infinity).
RECURSIVE FindSmallestFrom(_, _, _, _, _, _)
FindSmallestFrom(subexprs, x, y, i, idx, bestArea) ==
  IF i > Len(subexprs) THEN idx
  ELSE LET s == subexprs[i]
           inside == x >= s.x /\ x <= s.x + s.width /\ y >= s.y /\ y <= s.y + s.height
           area == s.width * s.height
       IN  IF inside /\ (idx = -1 \/ area < bestArea)
           THEN FindSmallestFrom(subexprs, x, y, i + 1, i - 1, area)
           ELSE FindSmallestFrom(subexprs, x, y, i + 1, idx, bestArea)

findSmallestAtPoint(subexprs, x, y) == FindSmallestFrom(subexprs, x, y, 1, -1, 0)

\* MathExpression.handleClick: the pointer position in viewBox coordinates and
\* the sub-expression hit (the rectangle sizes divide the viewBox sizes).
HitAt(point) ==
  LET scaleX == ViewBox.width \div ClientRect.width
      scaleY == ViewBox.height \div ClientRect.height
      mouseX == (point.clientX - ClientRect.left) * scaleX + ViewBox.x
      mouseY == (point.clientY - ClientRect.top) * scaleY + ViewBox.y
  IN  findSmallestAtPoint(FormulaSubExpressions, mouseX, mouseY)

\* The selection MathExpression.handleClick dispatches for the hit idx (0-based)
\* in the formula with the given index of an atomic statement.
SubExpressionSelection(id, loc, addr, idx, index) ==
  LET sub == FormulaSubExpressions[idx + 1]
  IN  ProofStateSelection(id, loc, addr,
        SubExpressionCoreWithIndex(sub.text, sub.source_start, sub.source_end, index))

\* The selection MathStatement.handleClick dispatches.
StatementSelection(r, part, addr) ==
  ProofStateSelection(UseContextProofStateId(r, part), HypothesisLocation, addr,
                      StatementAt(part, addr))

\* JavaScript a === b on payloads: strings by value, objects by reference (a
\* sub-expression payload is a fresh object literal and has no other holder).
PayloadStrictEquals(a, b) ==
  IF a.js = "string" /\ b.js = "string" THEN a.value = b.value
  ELSE IF a.js = "object" /\ b.js = "object"
       THEN "ref" \in DOMAIN a /\ "ref" \in DOMAIN b /\ a.ref = b.ref
       ELSE FALSE

\* MathStatement.tsx:33-39, isSelected of the segment at addr of part.
IsSelected(state, r, part, addr) ==
  \E i \in 1..Len(state) :
    /\ StrictEquals(state[i].proofStateId, UseContextProofStateId(r, part))
    /\ state[i].location.kind = HypothesisLocation.kind
    /\ state[i].location.label = HypothesisLocation.label
    /\ areStatementAddressesEqual(state[i].address, addr)
    /\ PayloadStrictEquals(state[i].selection, StatementAt(part, addr))

\* The history sequence without its i-th entry (1-based).
WithoutOrigin(o, i) == SubSeq(o, 1, i - 1) \o SubSeq(o, i + 1, Len(o))

\* One dispatched toggle, with the history of where each entry was clicked:
\* the state, the parts of its entries and the parts entries were removed from.
ToggleTracked(t, sel, part) ==
  LET existingIndex == FindIndex(t.state, sel)
      next == proofStateSelectionReducer(t.state, ToggleSelection(sel))
  IN  IF existingIndex >= 0
      THEN [state |-> next,
            origin |-> WithoutOrigin(t.origin, existingIndex + 1),
            removedFrom |-> t.removedFrom \cup { t.origin[existingIndex + 1] }]
      ELSE [state |-> next,
            origin |-> Append(t.origin, part),
            removedFrom |-> t.removedFrom]

Tracked == [state |-> selections, origin |-> origin, removedFrom |-> {}]

\* The event is the one before it, repeated.
SameEventAgain(type, part, addr, point) ==
  /\ last.type = type
  /\ last.part = part
  /\ last.address = addr
  /\ last.point = point

Commit(t, type, part, addr, point, hit, sel, sub) ==
  LET again == SameEventAgain(type, part, addr, point)
  IN  /\ Len(t.state) <= MaxSelections
      /\ selections' = t.state
      /\ origin' = t.origin
      /\ last' = [NoEvent EXCEPT !.type = type, !.part = part, !.address = addr,
                                 !.point = point, !.hit = hit,
                                 !.selection = sel, !.subSelection = sub,
                                 !.before = selections, !.twice = again,
                                 !.before2 = IF again THEN last.before ELSE << >>,
                                 !.removedFrom = t.removedFrom]
      /\ UNCHANGED <<render, discoveryVars, probe, engineVars>>

\* A click on the segment at addr, outside the formulas and the child segments
\* in it: MathStatement.handleClick (the propagation stops there).
ClickSegment(part, addr) ==
  LET sel == StatementSelection(render, part, addr)
  IN  Commit(ToggleTracked(Tracked, sel, part),
             "CLICK_SEGMENT", part, addr, None, -1, sel, None)

\* A click on the formula of the atomic statement at NegationAddress:
\* MathExpression.handleClick, then, the event bubbling, MathStatement.handleClick
\* of the enclosing segment; React applies the two dispatched actions in order.
ClickFormula(part, point) ==
  LET addr == NegationAddress
      idx == HitAt(point)
      sub == SubExpressionSelection(UseContextProofStateId(render, part),
                                    HypothesisLocation, addr, idx, 0)
      sel == StatementSelection(render, part, addr)
      first == IF idx >= 0 THEN ToggleTracked(Tracked, sub, part) ELSE Tracked
  IN  Commit(ToggleTracked(first, sel, part),
             "CLICK_FORMULA", part, addr, point, idx, sel,
             IF idx >= 0 THEN sub ELSE None)

\* A click on the formula of a variable's name (ProofState.tsx:47, an
\* AtomicStatement outside any MathStatement): MathExpression.handleClick alone.
ClickVariableFormula(part, point) ==
  LET idx == HitAt(point)
      sub == SubExpressionSelection(UseContextProofStateId(render, part),
                                    VariableLocation, RootAddress, idx, 0)
  IN  Commit(IF idx >= 0 THEN ToggleTracked(Tracked, sub, part) ELSE Tracked,
             "CLICK_VARIABLE_FORMULA", part, RootAddress, point, idx, None,
             IF idx >= 0 THEN sub ELSE None)

\* The "Clear All" button of the test page.
ClickClearAll ==
  /\ selections' = proofStateSelectionReducer(selections, ClearAllSelections)
  /\ origin' = << >>
  /\ last' = [NoEvent EXCEPT !.type = "CLEAR_ALL_SELECTIONS", !.before = selections]
  /\ UNCHANGED <<render, discoveryVars, probe, engineVars>>

SegmentClick == \E part \in RenderedParts, addr \in SegmentAddresses : ClickSegment(part, addr)
FormulaClick == \E part \in RenderedParts, point \in ClickPoints : ClickFormula(part, point)
VariableFormulaClick ==
  \E part \in RenderedParts, point \in ClickPoints : ClickVariableFormula(part, point)

NextUI == Render \/ SegmentClick \/ FormulaClick \/ VariableFormulaClick \/ ClickClearAll

SpecUI == Init /\ [][NextUI]_vars

\* ------------------------------------- the proof discovery graph, in use
\* One call of the reducer by the holder of the state, which keeps the state
\* returned, or the one it had when the call throws.
Applied(action) ==
  LET result == proofDiscoveryStateReducer(proofDiscoveryState, action)
      inserted == IF action.action \in { "initialize", "transition" }
                  THEN DOMAIN result.state.graph.nodes
                         \ (IF action.action = "initialize" THEN {}
                            ELSE DOMAIN proofDiscoveryState.graph.nodes)
                  ELSE {}
  IN  [state |-> result.state,
       given |-> given \cup inserted,
       glast |-> [action |-> action, threw |-> result.threw, same |-> result.same,
                  before |-> proofDiscoveryState, givenBefore |-> given,
                  inserted |-> inserted]]

Initialize ==
  \E statement \in ProblemStatements, proofState \in ProofStates :
    LET applied == Applied([action |-> "initialize", statement |-> statement,
                            proofState |-> proofState])
    IN  /\ proofDiscoveryState' = applied.state
        /\ given' = applied.given
        /\ glast' = applied.glast
        /\ UNCHANGED <<selectionVars, probe, engineVars>>

Repair ==
  \E nodeId \in NodeIdArguments, newProofState \in ProofStates :
    LET applied == Applied([action |-> "repair", nodeId |-> nodeId,
                            newProofState |-> newProofState])
    IN  /\ proofDiscoveryState' = applied.state
        /\ given' = applied.given
        /\ glast' = applied.glast
        /\ UNCHANGED <<selectionVars, probe, engineVars>>

Focus ==
  \E nodeId \in NodeIdArguments :
    LET applied == Applied([action |-> "focus", nodeId |-> nodeId])
    IN  /\ proofDiscoveryState' = applied.state
        /\ given' = applied.given
        /\ glast' = applied.glast
        /\ UNCHANGED <<selectionVars, probe, engineVars>>

Transition ==
  \E move \in Moves, newProofState \in ProofStates :
    LET applied == Applied([action |-> "transition", move |-> move,
                            newProofState |-> newProofState])
    IN  /\ Order(applied.state.graph) <= MaxNodes
        /\ proofDiscoveryState' = applied.state
        /\ given' = applied.given
        /\ glast' = applied.glast
        /\ UNCHANGED <<selectionVars, probe, engineVars>>

Finish ==
  LET applied == Applied([action |-> "finish"])
  IN  /\ proofDiscoveryState' = applied.state
      /\ given' = applied.given
      /\ glast' = applied.glast
      /\ UNCHANGED <<selectionVars, probe, engineVars>>

NextDiscovery == Initialize \/ Repair \/ Focus \/ Transition \/ Finish

SpecDiscovery == Init /\ [][NextDiscovery]_vars

\* ------------------------------------------- address equality, under study
\* The coordinates and the addresses the comparison is applied to.
CoordinateUniverse ==
  { IndexedCoordinate("conjunction", 0), IndexedCoordinate("conjunction", 1),
    IndexedCoordinate("disjunction", 0),
    StringCoordinate("negation"), StringCoordinate("highlight") }

RECURSIVE AddressesOfLength(_)
AddressesOfLength(n) ==
  IF n = 0 THEN { << >> }
  ELSE { Append(a, c) : a \in AddressesOfLength(n - 1), c \in CoordinateUniverse }

AddressUniverse == UNION { AddressesOfLength(n) : n \in 0..MaxAddressLen }

InitAddresses ==
  /\ InitProgram
  /\ probe \in { [fn |-> "input", a |-> a, b |-> b] :
                   a \in AddressUniverse, b \in AddressUniverse }

\* areStatementAddressesEqual(a, b) is called.
CompareAddresses ==
  /\ probe.fn = "input"
  /\ probe' = [fn |-> "areStatementAddressesEqual", a |-> probe.a, b |-> probe.b,
               result |-> areStatementAddressesEqual(probe.a, probe.b)]
  /\ UNCHANGED <<selectionVars, discoveryVars, engineVars>>

NextAddresses == CompareAddresses

SpecAddresses == InitAddresses /\ [][NextAddresses]_vars

\* --------------------------------------------- statement traversal, under study
\* Statements (core/ProofState.ts): an atomic statement is a string, a compound
\* one an object with its kind.
Variable(name, description) == [name |-> name, description |-> description]
Compound(kind, statements) == [js |-> "object", kind |-> kind, statements |-> statements]
Unary(kind, statement) == [js |-> "object", kind |-> kind, statement |-> statement]
Implication(antecedent, consequent) ==
  [js |-> "object", kind |-> "implication",
   antecedent |-> antecedent, consequent |-> consequent]
Equivalence(left, right) ==
  [js |-> "object", kind |-> "equivalence", left |-> left, right |-> right]
Quantified(kind, variable, statement) ==
  [js |-> "object", kind |-> kind, variable |-> variable, statement |-> statement]

\* The statements of at most the given depth: conjunctions and disjunctions
\* of up to MaxChildren statements.
RECURSIVE StatementsOfDepth(_)
StatementsOfDepth(d) ==
  IF d = 0 THEN { AtomicStatement("A") }
  ELSE LET sub == StatementsOfDepth(d - 1)
           lists == UNION { [1..n -> sub] : n \in 0..MaxChildren }
       IN  sub
           \cup { Compound("conjunction", l) : l \in lists }
           \cup { Compound("disjunction", l) : l \in lists }
           \cup { Unary("negation", t) : t \in sub }
           \cup { Unary("highlight", t) : t \in sub }
           \cup { Implication(t, u) : t \in sub, u \in sub }
           \cup { Equivalence(t, u) : t \in sub, u \in sub }
           \cup { Quantified("universal", Variable("x", "T"), t) : t \in sub }
           \cup { Quantified("existential", Variable("x", "T"), t) : t \in sub }

StatementUniverse == StatementsOfDepth(2)

\* The addresses a traversal starts from.
TraversalRoots == { RootAddress, << StringCoordinate("negation") >> }

\* [...address, coord]
ChildAddressInPlaceOfLast(address, coord) ==
  IF address = << >> THEN << coord >>
  ELSE [address EXCEPT ![Len(address)] = coord]
ChildAddress(address, coord) == Append(address, coord)

\* The MathStatement elements a MathStatement renders in it, in order: the
\* coordinate added to the address, and the statement.
RenderedChildren(statement) ==
  IF statement.js = "string" THEN << >>
  ELSE CASE statement.kind = "conjunction" ->
              [i \in 1..Len(statement.statements) |->
                 [coord |-> IndexedCoordinate("conjunction", i - 1),
                  statement |-> statement.statements[i]]]
         [] statement.kind = "disjunction" ->
              [i \in 1..Len(statement.statements) |->
                 [coord |-> IndexedCoordinate("disjunction", i - 1),
                  statement |-> statement.statements[i]]]
         [] statement.kind = "negation" ->
              << [coord |-> StringCoordinate("negation"),
                  statement |-> statement.statement] >>
         [] statement.kind = "implication" ->
              << [coord |-> StringCoordinate("implication_antecedent"),
                  statement |-> statement.antecedent],
                 [coord |-> StringCoordinate("implication_consequent"),
                  statement |-> statement.consequent] >>
         [] statement.kind = "equivalence" ->
              << [coord |-> StringCoordinate("equivalence_left"),
                  statement |-> statement.left],
                 [coord |-> StringCoordinate("equivalence_right"),
                  statement |-> statement.right] >>
         [] statement.kind = "universal" ->
              << [coord |-> StringCoordinate("universal_var"),
                  statement |-> AtomicStatement(statement.variable.name)],
                 [coord |-> StringCoordinate("universal_var_type"),
                  statement |-> AtomicStatement(statement.variable.description)],
                 [coord |-> StringCoordinate("universal_body"),
                  statement |-> statement.statement] >>
         [] statement.kind = "existential" ->
              << [coord |-> StringCoordinate("existential_var"),
                  statement |-> AtomicStatement(statement.variable.name)],
                 [coord |-> StringCoordinate("existential_var_type"),
                  statement |-> AtomicStatement(statement.variable.description)],
                 [coord |-> StringCoordinate("existential_body"),
                  statement |-> statement.statement] >>
         [] statement.kind = "highlight" ->
              << [coord |-> StringCoordinate("highlight"),
                  statement |-> statement.statement] >>
         [] OTHER -> << >>

\* <MathStatement address={address} statement={statement} />: the elements
\* rendered, this one first, each with the address and the statement it got.
RECURSIVE MathStatement(_, _)
RECURSIVE MathStatementChildren(_, _, _)
MathStatementChildren(address, children, i) ==
  IF i > Len(children) THEN << >>
  ELSE MathStatement(ChildAddress(address, children[i].coord), children[i].statement)
         \o MathStatementChildren(address, children, i + 1)

MathStatement(address, statement) ==
  << [address |-> address, statement |-> statement] >>
    \o MathStatementChildren(address, RenderedChildren(statement), 1)

InitTraversal ==
  /\ InitProgram
  /\ probe \in { [fn |-> "input", address |-> a, statement |-> t, renders |-> 0] :
                   a \in TraversalRoots, t \in StatementUniverse }

\* The statement is rendered, a first and a second time.
RenderStatement ==
  /\ probe.fn \in { "input", "MathStatement" }
  /\ probe.renders < 2
  /\ probe' = [fn |-> "MathStatement", address |-> probe.address,
               statement |-> probe.statement, renders |-> probe.renders + 1,
               rendered |-> MathStatement(probe.address, probe.statement),
               before |-> IF probe.fn = "input" THEN << >> ELSE probe.rendered]
  /\ UNCHANGED <<selectionVars, discoveryVars, engineVars>>

NextTraversal == RenderStatement

SpecTraversal == InitTraversal /\ [][NextTraversal]_vars

\* ------------------------------------------------- hit testing, under study
\* The boxes of sub-expressions: one around the others, one nested in it, and
\* two of the area of the nested one that overlap it.
Box(x, y, width, height) == [x |-> x, y |-> y, width |-> width, height |-> height]
BoxUniverse == { Box(0, 0, 10, 10), Box(2, 2, 4, 4), Box(4, 0, 2, 8), Box(0, 0, 4, 4) }

BoxLists == UNION { [1..n -> BoxUniverse] : n \in 0..MaxBoxes }

\* Query points: inside the nested box, inside the outer one only, outside
\* every box, and on edges and corners.
QueryPoints ==
  { [x |-> 4, y |-> 4], [x |-> 1, y |-> 1], [x |-> 20, y |-> 20],
    [x |-> 6, y |-> 6], [x |-> 10, y |-> 10], [x |-> 5, y |-> 3], [x |-> 0, y |-> 7] }

InitHitTest ==
  /\ InitProgram
  /\ probe \in { [fn |-> "input", subexprs |-> l, x |-> p.x, y |-> p.y] :
                   l \in BoxLists, p \in QueryPoints }

\* findSmallestAtPoint(x, y) is called on the boxes of the formula.
HitTest ==
  /\ probe.fn = "input"
  /\ probe' = [fn |-> "findSmallestAtPoint", subexprs |-> probe.subexprs,
               x |-> probe.x, y |-> probe.y,
               idx |-> findSmallestAtPoint(probe.subexprs, probe.x, probe.y)]
  /\ UNCHANGED <<selectionVars, discoveryVars, engineVars>>

NextHitTest == HitTest

SpecHitTest == InitHitTest /\ [][NextHitTest]_vars

\* --------------------------------------------------- the typesetting engine
\* wasm.current = { compile: mod.compile_math_with_subexpressions }
Compiler == [compile |-> "compile_math_with_subexpressions"]

\* What compiler.compile(input) and JSON.parse give: artwork, or an error.
CompileResults == { "svg", "error" }

\* The places of one invocation of loadWasm: awaiting the import, awaiting
\* mod.default(), returned (the promise is resolved), and after its then.
\* An invocation that found wasm.current set returns at once.
LoadPlaces == { "import", "init", "returned", "settled" }

\* MathExpression({address, index, input}) with the WasmContext value wasm
\* (None without a provider) and the result compile would give: what it
\* returns and whether it called compile.
MathExpressionUnguarded(wasm, result) ==
  [output |-> IF result = "error" THEN "ERROR" ELSE "svg", compiled |-> TRUE]
MathExpression(wasm, result) ==
  IF wasm = None \/ wasm.current = None
  THEN [output |-> "Loading...", compiled |-> FALSE]
  ELSE [output |-> IF result = "error" THEN "ERROR" ELSE "svg", compiled |-> TRUE]

\* The render as the history keeps it.
Shown(component, rendered) ==
  [component |-> component, output |-> rendered.output, compiled |-> rendered.compiled,
   initCalls |-> engine.initCalls, initDone |-> engine.initDone,
   initPending |-> \E k \in 1..Len(loads) : loads[k] \in { "import", "init" }]

CountCompile(rendered) ==
  IF rendered.compiled
  THEN [engine EXCEPT !.compileCalls = @ + 1]
  ELSE engine

\* The effect of ProofStateContextProvider runs: loadWasm(wasmRef) is called
\* and runs to its first await, or to its end when wasm.current is set.
CallLoadWasm ==
  /\ Len(loads) < MaxLoads
  /\ loads' = Append(loads, IF wasmRef.current = None THEN "import" ELSE "returned")
  /\ UNCHANGED <<selectionVars, discoveryVars, probe, wasmRef, wasmLoaded, engine, shown>>

\* The import has resolved: mod.default() is called and awaited.
ImportResolves ==
  \E k \in 1..Len(loads) :
    /\ loads[k] = "import"
    /\ loads' = [loads EXCEPT ![k] = "init"]
    /\ engine' = [engine EXCEPT !.initCalls = @ + 1]
    /\ UNCHANGED <<selectionVars, discoveryVars, probe, wasmRef, wasmLoaded, shown>>

\* The import has failed: the catch block warns and loadWasm returns.
ImportFails ==
  \E k \in 1..Len(loads) :
    /\ loads[k] = "import"
    /\ loads' = [loads EXCEPT ![k] = "returned"]
    /\ UNCHANGED <<selectionVars, discoveryVars, probe, wasmRef, wasmLoaded, engine, shown>>

\* mod.default() has resolved: the panic hook is set, wasm.current is assigned.
InitResolves ==
  \E k \in 1..Len(loads) :
    /\ loads[k] = "init"
    /\ loads' = [loads EXCEPT ![k] = "returned"]
    /\ engine' = [engine EXCEPT !.initDone = @ + 1]
    /\ wasmRef' = [wasmRef EXCEPT !.current = Compiler]
    /\ UNCHANGED <<selectionVars, discoveryVars, probe, wasmLoaded, shown>>

\* mod.default() or init_panic_hook has thrown: the catch block warns.
InitFails ==
  \E k \in 1..Len(loads) :
    /\ loads[k] = "init"
    /\ loads' = [loads EXCEPT ![k] = "returned"]
    /\ UNCHANGED <<selectionVars, discoveryVars, probe, wasmRef, wasmLoaded, engine, shown>>

\* loadWasm(wasmRef).then(() => setWasmLoaded(true))
SetWasmLoaded ==
  \E k \in 1..Len(loads) :
    /\ loads[k] = "returned"
    /\ loads' = [loads EXCEPT ![k] = "settled"]
    /\ wasmLoaded' = TRUE
    /\ UNCHANGED <<selectionVars, discoveryVars, probe, wasmRef, engine, shown>>

\* ProofStateContextProvider renders with a MathExpression as its child.
RenderProvider ==
  \E result \in CompileResults :
    LET rendered == IF ~wasmLoaded
                    THEN [output |-> "<div>Loading...</div>", compiled |-> FALSE]
                    ELSE MathExpression(wasmRef, result)
    IN  /\ engine.compileCalls < MaxCompiles
        /\ shown' = Shown("ProofStateContextProvider", rendered)
        /\ engine' = CountCompile(rendered)
        /\ UNCHANGED <<selectionVars, discoveryVars, probe, wasmRef, wasmLoaded, loads>>

\* A MathExpression renders under a WasmContext.Provider of wasmRef, or
\* under none.
RenderMathExpression ==
  \E wasm \in { None, wasmRef }, result \in CompileResults :
    LET rendered == MathExpression(wasm, result)
    IN  /\ engine.compileCalls < MaxCompiles
        /\ shown' = Shown("MathExpression", rendered)
        /\ engine' = CountCompile(rendered)
        /\ UNCHANGED <<selectionVars, discoveryVars, probe, wasmRef, wasmLoaded, loads>>

NextEngine ==
  \/ CallLoadWasm
  \/ ImportResolves
  \/ ImportFails
  \/ InitResolves
  \/ InitFails
  \/ SetWasmLoaded
  \/ RenderProvider
  \/ RenderMathExpression

SpecEngine == Init /\ [][NextEngine]_vars

\* ------------------------------------------- atomic statements, under study
\* A string is the sequence of its characters.
\* input.substring(start, end), with 0-based offsets.
Substring(input, start, end) == SubSeq(input, start + 1, end)

\* if (content.length > 0) segments.push({ type, content })
PushEvenIfEmpty(segments, inMath, content) ==
  Append(segments, [type |-> IF inMath THEN "math" ELSE "text", content |-> content])
PushSegment(segments, inMath, content) ==
  IF Len(content) > 0
  THEN Append(segments, [type |-> IF inMath THEN "math" ELSE "text", content |-> content])
  ELSE segments

\* parseAtomicStatement: the for loop from offset i on, with its variables.
RECURSIVE ParseFrom(_, _, _, _, _)
ParseFrom(input, i, segments, inMath, segmentStart) ==
  IF i >= Len(input)
  THEN [segments |-> segments, inMath |-> inMath, segmentStart |-> segmentStart]
  ELSE IF input[i + 1] = "$"
       THEN ParseFrom(input, i + 1,
                      PushSegment(segments, inMath, Substring(input, segmentStart, i)),
                      ~inMath, i + 1)
       ELSE ParseFrom(input, i + 1, segments, inMath, segmentStart)

\* The loop alone, without the content after the last delimiter.
ParseLoopOnly(input) == ParseFrom(input, 0, << >>, FALSE, 0).segments

parseAtomicStatement(input) ==
  LET loop == ParseFrom(input, 0, << >>, FALSE, 0)
  IN  IF loop.segmentStart < Len(input)
      THEN PushSegment(loop.segments, loop.inMath,
                       Substring(input, loop.segmentStart, Len(input)))
      ELSE loop.segments

\* The inputs: every string of up to MaxInputLen characters over a letter, a
\* space and the delimiter, and the example of the documentation.
InputCharacters == { "a", " ", "$" }
InputStrings == UNION { [1..n -> InputCharacters] : n \in 0..MaxInputLen }
ExampleInput ==
  << "T", "h", "e", " ", "s", "u", "m", " ", "$", "a", " ", "+", " ", "b",
     "$", " ", "i", "s", " ", "e", "q", "u", "a", "l", " ", "t", "o", " ",
     "$", "c", "$" >>

InitParse ==
  /\ InitProgram
  /\ probe \in { [fn |-> "input", input |-> t] : t \in InputStrings \cup { ExampleInput } }

\* parseAtomicStatement(input) is called.
ParseAtomicStatement ==
  /\ probe.fn = "input"
  /\ probe' = [fn |-> "parseAtomicStatement", input |-> probe.input,
               segments |-> parseAtomicStatement(probe.input)]
  /\ UNCHANGED <<selectionVars, discoveryVars, engineVars>>

NextParse == ParseAtomicStatement

SpecParse == InitParse /\ [][NextParse]_vars

\* --------------------------------------------- formula slots, under study
\* The texts of the study: without a formula, with one and with two.
PlainText == << "a" >>
OneFormula == << "$", "a", "$" >>
TwoFormulas == << "$", "a", "$", " ", "$", "a", "$" >>

\* A ContextVariable: free and meta variables carry no value.
ContextVariable(kind, name, description) ==
  [kind |-> kind, name |-> name, description |-> description]
LetVariable(name, description, value) ==
  [kind |-> "let", name |-> name, description |-> description, value |-> value]
LabelledStatement(label, statement) == [label |-> label, statement |-> statement]

\* AtomicStatement({ address, input }) under the location: a MathExpression
\* for each math segment, with the index mathIndex gives it. slot names the
\* place of the proof context the AtomicStatement element is rendered for.
AtomicStatementFormulas(slot, location, address, input) ==
  LET math == SelectSeq(parseAtomicStatement(input), LAMBDA segment : segment.type = "math")
  IN  [i \in 1..Len(math) |->
         [slot |-> slot, location |-> location, address |-> address,
          index |-> i - 1, input |-> math[i].content]]

\* The formulas of the MathStatement elements: only the atomic ones render
\* an AtomicStatement.
RECURSIVE MathStatementFormulas(_, _, _)
MathStatementFormulas(slot, location, elements) ==
  IF elements = << >> THEN << >>
  ELSE LET element == Head(elements)
       IN  ( IF element.statement.js = "string"
             THEN AtomicStatementFormulas(<<slot, element.address>>, location,
                                          element.address, element.statement.value)
             ELSE << >> )
           \o MathStatementFormulas(slot, location, Tail(elements))

\* renderVariable(variable, idx)
renderVariable(variable, idx) ==
  AtomicStatementFormulas(<<"variable", idx, "name">>,
                          ProofStateLocation("variable", variable.name),
                          RootAddress, variable.name)
  \o AtomicStatementFormulas(<<"variable", idx, "description">>,
                             ProofStateLocation("variable_body", variable.name),
                             RootAddress, variable.description)
  \o ( IF variable.kind = "let"
       THEN AtomicStatementFormulas(<<"variable", idx, "value">>,
                                    ProofStateLocation("variable", variable.name),
                                    RootAddress, variable.value)
       ELSE << >> )

\* proofContext.variables.map(renderVariable), from the i-th on
RECURSIVE RenderVariables(_, _)
RenderVariables(variables, i) ==
  IF i > Len(variables) THEN << >>
  ELSE renderVariable(variables[i], i - 1) \o RenderVariables(variables, i + 1)

\* proofContext.hypotheses.map / proofContext.goals.map, from the i-th on
RECURSIVE RenderStatements(_, _, _)
RenderStatements(kind, statements, i) ==
  IF i > Len(statements) THEN << >>
  ELSE MathStatementFormulas(<<kind, i - 1>>,
                             ProofStateLocation(kind, statements[i].label),
                             MathStatement(RootAddress, statements[i].statement))
       \o RenderStatements(kind, statements, i + 1)

\* ProofStateContext(proofContext): the formulas rendered, in order.
ProofStateContext(proofContext) ==
  RenderVariables(proofContext.variables, 1)
  \o RenderStatements("hypothesis", proofContext.hypotheses, 1)
  \o RenderStatements("goal", proofContext.goals, 1)

\* The proof contexts of the study: up to MaxVariables variables with
\* different names, and up to MaxStatements hypotheses and goals with
\* different labels within each list.
SlotNames == { OneFormula, TwoFormulas }
SlotLabels == { << "h" >>, << "g" >> }
SlotVariables ==
  { ContextVariable("free", n, d) : n \in SlotNames, d \in { PlainText, OneFormula } }
  \cup { LetVariable(n, d, v) :
           n \in SlotNames, d \in { PlainText, OneFormula }, v \in { PlainText, OneFormula } }
SlotStatements ==
  { AtomicStatement(OneFormula),
    Unary("negation", AtomicStatement(TwoFormulas)),
    Compound("conjunction", << AtomicStatement(OneFormula), AtomicStatement(OneFormula) >>),
    Quantified("universal", Variable(OneFormula, OneFormula), AtomicStatement(PlainText)) }
SlotLabelled == { LabelledStatement(l, t) : l \in SlotLabels, t \in SlotStatements }

VariableLists ==
  { l \in UNION { [1..n -> SlotVariables] : n \in 0..MaxVariables } :
      \A i, j \in 1..Len(l) : l[i].name = l[j].name => i = j }
LabelledLists ==
  { l \in UNION { [1..n -> SlotLabelled] : n \in 0..MaxStatements } :
      \A i, j \in 1..Len(l) : l[i].label = l[j].label => i = j }

ProofContexts ==
  { [variables |-> v, hypotheses |-> h, goals |-> g] :
      v \in VariableLists, h \in LabelledLists, g \in LabelledLists }

InitSlots ==
  /\ InitProgram
  /\ probe \in { [fn |-> "input", proofContext |-> c] : c \in ProofContexts }

\* The proof context is rendered.
RenderProofStateContext ==
  /\ probe.fn = "input"
  /\ probe' = [fn |-> "ProofStateContext", proofContext |-> probe.proofContext,
               formulas |-> ProofStateContext(probe.proofContext)]
  /\ UNCHANGED <<selectionVars, discoveryVars, engineVars>>

NextSlots == RenderProofStateContext

SpecSlots == InitSlots /\ [][NextSlots]_vars

\* ------------------------------------------------------------ properties
Range(seq) == { seq[i] : i \in 1..Len(seq) }

\* The same selections with the same payloads, whatever the order.
SameSelectionSet(s, t) == Len(s) = Len(t) /\ Range(s) = Range(t)

\* The same proof state id (the same number, or the same id object).
SameProofStateId(a, b) == a = b

\* The same position: proof state id, location and address.
SamePosition(a, b) ==
  /\ SameProofStateId(a.proofStateId, b.proofStateId)
  /\ a.location = b.location
  /\ a.address = b.address

IsFullStatementPayload(p) == ~IsSubExpressionPayload(p)

\* The sequence s without its i-th entry (1-based).
WithoutEntry(s, i) == SubSeq(s, 1, i - 1) \o SubSeq(s, i + 1, Len(s))

\* C1, as stated: toggling the same selection twice in a row gives back the
\* selection set it started from, the same selections with the same payloads.
ToggleIsInvolution ==
  last.twice => SameSelectionSet(selections, last.before2)

\* No entry of s is at the position of sel with another payload while one of
\* the two payloads is a full statement.
NoOtherPayloadMatches(s, sel) ==
  \A i \in 1..Len(s) :
    ( /\ SamePosition(s[i], sel)
      /\ (IsFullStatementPayload(s[i].selection) \/ IsFullStatementPayload(sel.selection)) )
    => s[i].selection = sel.selection

\* C1, amended: toggling the same selection twice in a row gives back the
\* selection set it started from (entry order aside), provided the set held no
\* entry at the selection's position with a different payload where one of the
\* two payloads is a full statement.
ToggleIsInvolutionAmended ==
  (last.twice /\ NoOtherPayloadMatches(last.before2, last.selection))
    => SameSelectionSet(selections, last.before2)

\* C1 witness: a selection already in a set of two entries was toggled twice.
ToggleTwiceWitness ==
  /\ last.twice
  /\ NoOtherPayloadMatches(last.before2, last.selection)
  /\ Len(last.before2) = 2
  /\ last.selection \in Range(last.before2)

\* C2: a toggle changes exactly one entry: when the state holds an entry equal
\* to the selection under the equality rule, one such entry is removed, and
\* otherwise the selection is added at the end; every other entry is kept, in
\* the same order.
ToggleChangesExactlyOneEntry ==
  last.type = "TOGGLE_SELECTION" =>
    LET S == last.before
        sel == last.selection
        equal == { i \in 1..Len(S) : areProofStateSelectionsEqual(S[i], sel) }
    IN  IF equal # {}
        THEN \E i \in equal : selections = WithoutEntry(S, i)
        ELSE selections = S \o << sel >>

\* C2 witness: a toggle removed one of two entries and the other one stayed.
ToggleKeepsOtherEntryWitness ==
  /\ last.type = "TOGGLE_SELECTION"
  /\ Len(last.before) = 2
  /\ Len(selections) = 1
  /\ selections[1] = last.before[2]

\* C3: no two distinct entries of the selection state are equal under the
\* selection-equality rule.
NoDuplicateSelections ==
  \A i, j \in 1..Len(selections) :
    i # j => ~areProofStateSelectionsEqual(selections[i], selections[j])

\* C3 witness: two sub-expression entries at one position are held at once,
\* after a toggle of the second.
TwoEntriesAtOnePositionWitness ==
  /\ last.type = "TOGGLE_SELECTION"
  /\ Len(selections) = 2
  /\ SamePosition(selections[1], selections[2])

\* C5: there is at most one full-statement selection for any proof state id,
\* location and address.
AtMostOneStatementPerPosition ==
  \A i, j \in 1..Len(selections) :
    ( /\ i # j
      /\ IsFullStatementPayload(selections[i].selection)
      /\ IsFullStatementPayload(selections[j].selection) )
    => ~SamePosition(selections[i], selections[j])

\* C5 witness: a full statement was toggled at a position that held a full
\* statement with a different payload.
SecondStatementToggledWitness ==
  /\ last.type = "TOGGLE_SELECTION"
  /\ IsFullStatementPayload(last.selection.selection)
  /\ \E i \in 1..Len(last.before) :
       /\ SamePosition(last.before[i], last.selection)
       /\ IsFullStatementPayload(last.before[i].selection)
       /\ last.before[i].selection # last.selection.selection

\* C6: CLEAR_PROOF_STATE_SELECTIONS(p) leaves no entry with proof state id p and
\* keeps every entry with another proof state id, unchanged and in order.
ClearProofStateRemovesOnlyThatId ==
  last.type = "CLEAR_PROOF_STATE_SELECTIONS" =>
    LET S == last.before
        p == last.proofStateId
        kept == { i \in 1..Len(S) : ~SameProofStateId(S[i].proofStateId, p) }
    IN  /\ \A i \in 1..Len(selections) :
             ~SameProofStateId(selections[i].proofStateId, p)
        /\ Len(selections) = Cardinality(kept)
        /\ \A i \in kept :
             selections[Cardinality({ j \in kept : j <= i })] = S[i]

\* C6 witness: a clear removed one entry and kept an entry of another context.
ClearProofStateWitness ==
  /\ last.type = "CLEAR_PROOF_STATE_SELECTIONS"
  /\ Len(last.before) = 2
  /\ Len(selections) = 1

\* The equality of C4, field by field.
EqualAsClaimed(a, b) ==
  /\ SameProofStateId(a.proofStateId, b.proofStateId)
  /\ a.location.kind = b.location.kind
  /\ a.location.label = b.location.label
  /\ a.address = b.address
  /\ (IsSubExpressionPayload(a.selection) /\ IsSubExpressionPayload(b.selection))
       => /\ a.selection.text = b.selection.text
          /\ a.selection.source_start = b.selection.source_start
          /\ a.selection.source_end = b.selection.source_end
          /\ a.selection.index = b.selection.index

\* C4: a toggle treats an entry as equal to the selection (and removes it)
\* exactly when the two have the same proof state id, location kind and label
\* and address and, if both payloads are sub-expressions, the same text,
\* source_start, source_end and index.
ToggleEqualityRule ==
  (last.type = "TOGGLE_SELECTION" /\ Len(last.before) = 1) =>
    (selections = << >>) = EqualAsClaimed(last.before[1], last.selection)

\* C4 witness: two sub-expressions that differ in the formula index alone
\* were toggled one after the other and both are held.
IndexDistinguishesWitness ==
  /\ last.type = "TOGGLE_SELECTION"
  /\ Len(last.before) = 1
  /\ Len(selections) = 2
  /\ SamePosition(selections[1], selections[2])
  /\ IsSubExpressionPayload(selections[1].selection)
  /\ IsSubExpressionPayload(selections[2].selection)
  /\ areSubExpressionCoresEqual(selections[1].selection, selections[2].selection)

\* The same rendered selection: the same proof node, context index, location,
\* address and payload, in whichever render it was built.
SameRenderedSelection(a, b) ==
  /\ a.proofStateId.proofNodeId = b.proofStateId.proofNodeId
  /\ a.proofStateId.proofContextId = b.proofStateId.proofContextId
  /\ a.location = b.location
  /\ a.address = b.address
  /\ a.selection = b.selection

ClickRemovesOnlyOwnPartSelections ==
  last.removedFrom \subseteq { last.part }

\* No entry of the state is at the position of sel.
NothingSelectedAt(state, sel) ==
  \A i \in 1..Len(state) : ~SamePosition(state[i], sel)

\* C9, as stated: after a click on a sub-expression of a formula inside a
\* hypothesis statement, with nothing selected at that statement position
\* before, and once every handler of the click has run, the selection of that
\* sub-expression is in the selection set.
SubExpressionClickSelects ==
  (/\ last.type = "CLICK_FORMULA"
   /\ last.hit >= 0
   /\ NothingSelectedAt(last.before, last.subSelection))
  => \E i \in 1..Len(selections) : selections[i] = last.subSelection

\* The last event is a click on the statement segment at last.address.
IsSegmentClick == last.type \in { "CLICK_SEGMENT", "CLICK_FORMULA" }

\* C10, as stated: a click on an unselected statement segment puts its
\* selection in the selection set and the segment is rendered as selected; the
\* same click again leaves the selection set as it was before the first.
ClickSelectsThenDeselects ==
  /\ (IsSegmentClick /\ ~IsSelected(last.before, render, last.part, last.address))
       => /\ \E i \in 1..Len(selections) : selections[i] = last.selection
          /\ IsSelected(selections, render, last.part, last.address)
  /\ (IsSegmentClick /\ last.twice
        /\ ~IsSelected(last.before2, render, last.part, last.address))
       => SameSelectionSet(selections, last.before2)

\* ------------------------------------------ properties of the proof graph
\* The last proof-discovery action, by name.
LastAction(name) == glast.action.action = name

NodeIds(g) == DOMAIN g.nodes

\* The current node of the state is a node of its graph.
CurrentNodeExists(state) == state.currentNodeId \in NodeIds(state.graph)

\* C11: after initialize(statement, proofState) the graph has exactly the node 0,
\* holding proofState, and no edge, currentNodeId is 0, isSolved is false and
\* the statement is the argument, whatever the state was before.
InitializeResetsToSingleNode ==
  LastAction("initialize") =>
    /\ ~glast.threw
    /\ proofDiscoveryState =
         [statement |-> glast.action.statement,
          graph |-> [nodes |-> (0 :> [proofState |-> glast.action.proofState]),
                     edges |-> << >>],
          currentNodeId |-> 0,
          isSolved |-> FALSE]

\* initialize was applied to a solved state with several nodes and an edge,
\* another statement, another proof state at node 0 and another current node.
InitializeOverGraphWitness ==
  /\ LastAction("initialize")
  /\ Order(glast.before.graph) >= 2
  /\ Size(glast.before.graph) >= 1
  /\ glast.before.isSolved
  /\ glast.before.currentNodeId # 0
  /\ glast.before.statement \notin { "", glast.action.statement }
  /\ glast.before.graph.nodes[0].proofState # glast.action.proofState

\* What a transition is to do: one more node, one more edge, and the new node
\* is the current one.
TransitionInsertsNodeAndEdge ==
  /\ ~glast.threw
  /\ Order(proofDiscoveryState.graph) = Order(glast.before.graph) + 1
  /\ Size(proofDiscoveryState.graph) = Size(glast.before.graph) + 1
  /\ NodeIds(proofDiscoveryState.graph) \ NodeIds(glast.before.graph)
       = { proofDiscoveryState.currentNodeId }

\* C12, as stated: in every state in which it is applied, transition adds
\* exactly one node and exactly one edge and makes the new node the current one.
TransitionAlwaysInsertsNodeAndEdge ==
  LastAction("transition") => TransitionInsertsNodeAndEdge

\* C12, amended: transition does so in every state whose current node is in the
\* graph, which is every state since the first initialize.
TransitionInsertsNodeAndEdgeAtCurrentNode ==
  /\ (LastAction("transition") /\ CurrentNodeExists(glast.before))
       => TransitionInsertsNodeAndEdge
  /\ (proofDiscoveryState.currentNodeId # -1) => CurrentNodeExists(proofDiscoveryState)

\* A transition from a current node that is not the newest node.
TransitionFromOlderNodeWitness ==
  /\ LastAction("transition")
  /\ ~glast.threw
  /\ Order(glast.before.graph) >= 2
  /\ glast.before.currentNodeId = 0

\* The edge transition is to add from current node c to new node n.
ExpectedEdge(move, c, n) ==
  CASE move.kind = "weakening" ->
         [source |-> c, target |-> n, undirected |-> FALSE, attributes |-> move]
    [] move.kind = "equivalence" ->
         [source |-> n, target |-> c, undirected |-> TRUE, attributes |-> move]
    [] OTHER ->
         [source |-> n, target |-> c, undirected |-> FALSE, attributes |-> move]

\* C13: the edge transition adds is oriented by move.kind (weakening c -> n,
\* strengthening n -> c, equivalence undirected between n and c, other n -> c)
\* and carries the move; the edges there before are kept.
TransitionEdgeOrientation ==
  (LastAction("transition") /\ ~glast.threw) =>
    proofDiscoveryState.graph.edges =
      Append(glast.before.graph.edges,
             ExpectedEdge(glast.action.move, glast.before.currentNodeId,
                          proofDiscoveryState.currentNodeId))

\* A weakening from node 0 to node 2 in a graph that holds an undirected edge.
WeakeningAfterEquivalenceWitness ==
  /\ LastAction("transition")
  /\ ~glast.threw
  /\ glast.action.move.kind = "weakening"
  /\ glast.before.currentNodeId = 0
  /\ proofDiscoveryState.currentNodeId = 2
  /\ \E i \in 1..Size(glast.before.graph) : glast.before.graph.edges[i].undirected

\* C14: the node ids are 0 .. order-1 in every state, and transition gives the
\* new node the order of the graph before it.
NodeIdsAreDense ==
  /\ NodeIds(proofDiscoveryState.graph) = 0..(Order(proofDiscoveryState.graph) - 1)
  /\ LastAction("transition") => glast.inserted = { Order(glast.before.graph) }

\* A third node was inserted.
ThirdNodeWitness ==
  /\ LastAction("transition")
  /\ glast.inserted = { 2 }
  /\ Order(proofDiscoveryState.graph) = 3

\* C15, as stated: along any sequence of actions on the state, the id given to
\* an inserted node is greater than every id given before it.
NodeIdsNeverReused ==
  \A id \in glast.inserted : \A before \in glast.givenBefore : id > before

\* C15, amended: the id transition gives is greater than every id in the graph,
\* and a transition at an existing current node does insert; initialize
\* discards the graph and gives id 0 again.
NodeIdsIncreaseUntilInitialize ==
  /\ LastAction("transition") =>
       /\ \A id \in glast.inserted :
            \A before \in NodeIds(glast.before.graph) : id > before
       /\ CurrentNodeExists(glast.before) => glast.inserted # {}
  /\ LastAction("initialize") => glast.inserted = { 0 }

\* Node id 1 was given, the graph was initialized again, and id 1 is given to
\* another node.
NodeIdGivenAgainWitness ==
  /\ LastAction("transition")
  /\ glast.inserted = { 1 }
  /\ 1 \in glast.givenBefore

\* C16: repair of a node of the graph replaces the proof state stored at that
\* node and changes nothing else.
RepairReplacesOnlyThatProofState ==
  (LastAction("repair") /\ glast.action.nodeId \in NodeIds(glast.before.graph)) =>
    /\ ~glast.threw
    /\ proofDiscoveryState =
         [glast.before EXCEPT
            !.graph.nodes[glast.action.nodeId].proofState = glast.action.newProofState]

\* A repair, in a graph with an edge, of a node that is not the current one,
\* with a proof state other than the stored one.
RepairOtherNodeWitness ==
  /\ LastAction("repair")
  /\ ~glast.threw
  /\ Size(glast.before.graph) >= 1
  /\ glast.action.nodeId # glast.before.currentNodeId
  /\ glast.before.graph.nodes[glast.action.nodeId].proofState
       # glast.action.newProofState

\* C17: repair or focus with a node id that is not in the graph throws and
\* leaves the whole state as it was.
AbsentNodeThrowsAndKeepsState ==
  ((LastAction("repair") \/ LastAction("focus"))
     /\ glast.action.nodeId \notin NodeIds(glast.before.graph)) =>
    /\ glast.threw
    /\ proofDiscoveryState = glast.before

\* A focus on the id one past the last node of a graph with an edge.
FocusAbsentNodeWitness ==
  /\ LastAction("focus")
  /\ glast.threw
  /\ Size(glast.before.graph) >= 1
  /\ glast.action.nodeId = Order(glast.before.graph)

\* C18, as stated: a transition whose current node is not in the graph fails
\* and leaves the graph without a new node and without a new edge.
TransitionWithoutCurrentNodeIsAtomic ==
  (LastAction("transition") /\ ~CurrentNodeExists(glast.before)) =>
    /\ glast.threw
    /\ proofDiscoveryState.graph = glast.before.graph

\* C19: focus on a node of the graph sets currentNodeId to it and changes
\* nothing else.
FocusSetsOnlyCurrentNode ==
  (LastAction("focus") /\ glast.action.nodeId \in NodeIds(glast.before.graph)) =>
    /\ ~glast.threw
    /\ proofDiscoveryState =
         [glast.before EXCEPT !.currentNodeId = glast.action.nodeId]

\* A focus on another node than the current one, in a solved state.
FocusOtherNodeWitness ==
  /\ LastAction("focus")
  /\ ~glast.threw
  /\ glast.action.nodeId # glast.before.currentNodeId
  /\ glast.before.isSolved

\* C20: finish sets isSolved and changes nothing else.
FinishSetsOnlySolved ==
  LastAction("finish") =>
    /\ ~glast.threw
    /\ proofDiscoveryState = [glast.before EXCEPT !.isSolved = TRUE]

\* A finish in an unsolved state with an edge whose current node is not node 0.
FinishAwayFromRootWitness ==
  /\ LastAction("finish")
  /\ ~glast.before.isSolved
  /\ Size(glast.before.graph) >= 1
  /\ glast.before.currentNodeId > 0

\* C21, as stated: once isSolved is true it is true in every later state,
\* whatever action follows.
SolvedStaysSolved ==
  glast.before.isSolved => proofDiscoveryState.isSolved

\* C21, amended: isSolved stays true under every action but initialize, which
\* sets it to false.
SolvedStaysSolvedUntilInitialize ==
  /\ (glast.before.isSolved /\ ~LastAction("initialize"))
       => proofDiscoveryState.isSolved
  /\ LastAction("initialize") => ~proofDiscoveryState.isSolved

\* A transition was applied to a solved state.
TransitionWhenSolvedWitness ==
  /\ LastAction("transition")
  /\ ~glast.threw
  /\ glast.before.isSolved

\* The earlier sequence is the beginning of the later one.
IsPrefix(earlier, later) ==
  /\ Len(earlier) <= Len(later)
  /\ SubSeq(later, 1, Len(earlier)) = earlier

\* Since the state before the last action, no node and no edge has left the
\* graph, and the only stored proof state that differs is that of the node a
\* repair names.
GraphOnlyGrew ==
  /\ NodeIds(glast.before.graph) \subseteq NodeIds(proofDiscoveryState.graph)
  /\ IsPrefix(glast.before.graph.edges, proofDiscoveryState.graph.edges)
  /\ \A id \in NodeIds(glast.before.graph) \cap NodeIds(proofDiscoveryState.graph) :
       proofDiscoveryState.graph.nodes[id] # glast.before.graph.nodes[id]
         => (LastAction("repair") /\ glast.action.nodeId = id)

\* C22, as stated: along any sequence of actions the graph is append-only, and
\* repair replacing one node's proof state is the only change to what is in it.
GraphIsAppendOnly == GraphOnlyGrew

\* C22, amended: the graph is append-only under every action but initialize,
\* which discards every node and edge.
GraphIsAppendOnlyUntilInitialize ==
  /\ ~LastAction("initialize") => GraphOnlyGrew
  /\ LastAction("initialize") => Size(proofDiscoveryState.graph) = 0

\* A transition into a graph that already had an edge.
SecondEdgeAppendedWitness ==
  /\ LastAction("transition")
  /\ ~glast.threw
  /\ Size(glast.before.graph) >= 1
  /\ Size(proofDiscoveryState.graph) = Size(glast.before.graph) + 1

\* The state the last action was given, as its holder observes it after the
\* call: every state the reducer returns is a copy ({...state}) that refers to
\* the Graph object of the state it was given, so that graph is the current one.
GivenStateObserved ==
  [glast.before EXCEPT !.graph = proofDiscoveryState.graph]

\* The state returned when the reducer is invoked once more with the state and
\* the action of the last call.
SecondInvocation ==
  proofDiscoveryStateReducer(GivenStateObserved, glast.action)

\* C23, as stated: the reducer does not alter the state it was given, and a
\* second invocation with the same state and action gives the state the first
\* gave.
ReducerIsPure ==
  ~LastAction("none") =>
    /\ GivenStateObserved = glast.before
    /\ ~glast.threw =>
         /\ ~SecondInvocation.threw
         /\ SecondInvocation.state = proofDiscoveryState

\* C24, as stated: a successful action that changes the proof-discovery state
\* returns a state value other than the one it was given.
ChangeReturnsNewState ==
  (~glast.threw /\ proofDiscoveryState # glast.before) => ~glast.same

\* ------------------------------------------- properties of address equality
AddressesCompared == probe.fn = "areStatementAddressesEqual"

\* C25: areStatementAddressesEqual is reflexive, symmetric and transitive, true
\* for two empty addresses and false for addresses of different lengths.
AddressEqualityIsEquivalence ==
  AddressesCompared =>
    /\ areStatementAddressesEqual(probe.a, probe.a)
    /\ probe.result = areStatementAddressesEqual(probe.b, probe.a)
    /\ \A c \in AddressUniverse :
         (probe.result /\ areStatementAddressesEqual(probe.b, c))
           => areStatementAddressesEqual(probe.a, c)
    /\ (probe.a = << >> /\ probe.b = << >>) => probe.result
    /\ Len(probe.a) # Len(probe.b) => ~probe.result

\* An address was compared with one it begins: equal coordinates, other length.
AddressAgainstLongerWitness ==
  /\ AddressesCompared
  /\ Len(probe.a) = 1
  /\ Len(probe.b) = 2
  /\ probe.b[1] = probe.a[1]
  /\ ~probe.result

\* The tag of a coordinate, and whether it carries an index.
CoordinateTag(c) == IF c.js = "string" THEN c.value ELSE c.kind
CarriesIndex(c) == c.js = "object"

SameTagAndIndex(c, d) ==
  /\ CoordinateTag(c) = CoordinateTag(d)
  /\ CarriesIndex(c) = CarriesIndex(d)
  /\ CarriesIndex(c) => c.idx = d.idx

\* C26: areStatementAddressesEqual(a, b) is true exactly when a and b have the
\* same length and at every position the same tag and, for a tag with an
\* index, the same index.
AddressEqualityIsPairwise ==
  AddressesCompared =>
    (probe.result <=>
       /\ Len(probe.a) = Len(probe.b)
       /\ \A i \in 1..Len(probe.a) : SameTagAndIndex(probe.a[i], probe.b[i]))

\* Two addresses of length 2 that differ in the index of the last coordinate.
IndexDiffersWitness ==
  /\ AddressesCompared
  /\ Len(probe.a) = 2
  /\ Len(probe.b) = 2
  /\ probe.a[1] = probe.b[1]
  /\ probe.a[2] = IndexedCoordinate("conjunction", 0)
  /\ probe.b[2] = IndexedCoordinate("conjunction", 1)
  /\ ~probe.result

\* ---------------------------------------- properties of statement traversal
StatementRendered == probe.fn = "MathStatement"

\* The part of a statement that a coordinate names: by the kind of the
\* statement, the child of that field or at that index; None if there is none.
PartAt(statement, coord) ==
  IF statement.js = "string" THEN None
  ELSE IF coord.js = "object"
  THEN IF /\ statement.kind \in { "conjunction", "disjunction" }
          /\ coord.kind = statement.kind
          /\ coord.idx + 1 \in 1..Len(statement.statements)
       THEN statement.statements[coord.idx + 1]
       ELSE None
  ELSE CASE coord.value = "negation" /\ statement.kind = "negation" ->
              statement.statement
         [] coord.value = "highlight" /\ statement.kind = "highlight" ->
              statement.statement
         [] coord.value = "implication_antecedent" /\ statement.kind = "implication" ->
              statement.antecedent
         [] coord.value = "implication_consequent" /\ statement.kind = "implication" ->
              statement.consequent
         [] coord.value = "equivalence_left" /\ statement.kind = "equivalence" ->
              statement.left
         [] coord.value = "equivalence_right" /\ statement.kind = "equivalence" ->
              statement.right
         [] coord.value = "universal_var" /\ statement.kind = "universal" ->
              AtomicStatement(statement.variable.name)
         [] coord.value = "universal_var_type" /\ statement.kind = "universal" ->
              AtomicStatement(statement.variable.description)
         [] coord.value = "universal_body" /\ statement.kind = "universal" ->
              statement.statement
         [] coord.value = "existential_var" /\ statement.kind = "existential" ->
              AtomicStatement(statement.variable.name)
         [] coord.value = "existential_var_type" /\ statement.kind = "existential" ->
              AtomicStatement(statement.variable.description)
         [] coord.value = "existential_body" /\ statement.kind = "existential" ->
              statement.statement
         [] OTHER -> None

\* An entry of the rendering is a child of another: its address is the
\* other's with one coordinate more, and that coordinate names it in the other.
IsChildOf(child, parent) ==
  /\ Len(child.address) = Len(parent.address) + 1
  /\ SubSeq(child.address, 1, Len(parent.address)) = parent.address
  /\ PartAt(parent.statement, child.address[Len(child.address)]) = child.statement

\* C27: in a traversal from a root address every statement but the root gets
\* the address of its parent with one coordinate added, the one that names its
\* field or index in the parent; no two statements get one address; a second
\* traversal gives every statement the address the first gave.
AddressDerivationIsPositional ==
  StatementRendered =>
    /\ probe.rendered[1] = [address |-> probe.address, statement |-> probe.statement]
    /\ \A i \in 2..Len(probe.rendered) :
         \E j \in 1..(i - 1) : IsChildOf(probe.rendered[i], probe.rendered[j])
    /\ \A i, j \in 1..Len(probe.rendered) :
         probe.rendered[i].address = probe.rendered[j].address => i = j
    /\ probe.renders = 2 => probe.rendered = probe.before

\* An implication whose consequent is a conjunction of two, rendered twice
\* under a root address that is not empty.
NestedTraversalWitness ==
  /\ StatementRendered
  /\ probe.renders = 2
  /\ probe.address # << >>
  /\ probe.statement.js = "object"
  /\ probe.statement.kind = "implication"
  /\ \E i \in 1..Len(probe.rendered) :
       probe.rendered[i].address =
         probe.address \o << StringCoordinate("implication_consequent"),
                             IndexedCoordinate("conjunction", 1) >>

\* -------------------------------------------------- properties of hit testing
HitTested == probe.fn = "findSmallestAtPoint"

\* The point is in the box, its four edges included.
BoxContains(box, x, y) ==
  /\ box.x <= x /\ x <= box.x + box.width
  /\ box.y <= y /\ y <= box.y + box.height

BoxArea(box) == box.width * box.height

\* The boxes of the list, by place (1-based), that contain the query point.
BoxesAtPoint ==
  { j \in 1..Len(probe.subexprs) : BoxContains(probe.subexprs[j], probe.x, probe.y) }

\* C28: the hit test returns a box that contains the point and has the least
\* area among the boxes that contain it, and -1 exactly when no box contains it.
HitIsSmallestContainingBox ==
  HitTested =>
    /\ probe.idx = -1 <=> BoxesAtPoint = {}
    /\ probe.idx # -1 =>
         /\ probe.idx + 1 \in BoxesAtPoint
         /\ \A j \in BoxesAtPoint :
              BoxArea(probe.subexprs[probe.idx + 1]) <= BoxArea(probe.subexprs[j])

\* The point is on the corner of the nested box, which comes after the outer
\* box in the list and is returned.
HitOnEdgeOfNestedBoxWitness ==
  /\ HitTested
  /\ probe.x = 6 /\ probe.y = 6
  /\ Len(probe.subexprs) >= 2
  /\ probe.subexprs[1] = Box(0, 0, 10, 10)
  /\ probe.idx >= 1
  /\ probe.subexprs[probe.idx + 1] = Box(2, 2, 4, 4)

\* C29: among boxes of the least area that contain the point, the hit test
\* returns the first of the list.
HitTieGoesToFirst ==
  (HitTested /\ probe.idx # -1) =>
    \A j \in BoxesAtPoint :
      BoxArea(probe.subexprs[j]) = BoxArea(probe.subexprs[probe.idx + 1])
        => probe.idx + 1 <= j

\* Two different boxes of the least area contain the point, after a larger
\* one, and the earlier of the two is returned.
HitTieWitness ==
  /\ HitTested
  /\ probe.idx = 1
  /\ 1 \in BoxesAtPoint
  /\ 3 \in BoxesAtPoint
  /\ BoxArea(probe.subexprs[1]) > BoxArea(probe.subexprs[2])
  /\ BoxArea(probe.subexprs[3]) = BoxArea(probe.subexprs[2])
  /\ probe.subexprs[3] # probe.subexprs[2]

\* ------------------------------------------ properties of atomic statements
Parsed == probe.fn = "parseAtomicStatement"

\* The number of delimiters before place p (1-based) of the input.
DelimitersBefore(input, p) ==
  Cardinality({ q \in 1..(p - 1) : input[q] = "$" })

\* The places where a piece that is not empty begins, and where it ends.
PieceStarts(input) ==
  { p \in 1..Len(input) : input[p] # "$" /\ (p = 1 \/ input[p - 1] = "$") }
PieceEnd(input, p) ==
  CHOOSE q \in p..Len(input) :
    /\ \A r \in p..q : input[r] # "$"
    /\ q = Len(input) \/ input[q + 1] = "$"

\* The piece that begins at p: text after an even number of delimiters, math
\* after an odd number.
PieceAt(input, p) ==
  [type |-> IF DelimitersBefore(input, p) % 2 = 0 THEN "text" ELSE "math",
   content |-> SubSeq(input, p, PieceEnd(input, p))]

\* The k-th place of the set, in increasing order.
KthPlace(places, k) ==
  CHOOSE p \in places : Cardinality({ q \in places : q < p }) = k - 1

ExampleSegments ==
  << [type |-> "text", content |-> << "T", "h", "e", " ", "s", "u", "m", " " >>],
     [type |-> "math", content |-> << "a", " ", "+", " ", "b" >>],
     [type |-> "text", content |-> << " ", "i", "s", " ", "e", "q", "u", "a", "l", " ", "t", "o", " " >>],
     [type |-> "math", content |-> << "c" >>] >>

\* C30: parseAtomicStatement returns, in order, the pieces between the
\* delimiters that are not empty, text after an even number of delimiters and
\* math after an odd number, the last piece running to the end of the input;
\* the example gives text "The sum ", math "a + b", text " is equal to ", math "c".
ParseSplitsAtDelimiters ==
  Parsed =>
    /\ Len(probe.segments) = Cardinality(PieceStarts(probe.input))
    /\ \A k \in 1..Len(probe.segments) :
         probe.segments[k] = PieceAt(probe.input, KthPlace(PieceStarts(probe.input), k))
    /\ probe.input = ExampleInput => probe.segments = ExampleSegments

\* An input with empty pieces before and between two delimiters and text
\* after an unmatched last one: "$$ $a".
UnmatchedDelimiterWitness ==
  /\ Parsed
  /\ probe.input = << "$", "$", " ", "$", "a" >>
  /\ probe.segments =
       << [type |-> "text", content |-> << " " >>],
          [type |-> "math", content |-> << "a" >>] >>

\* C31: no two consecutive segments returned by parseAtomicStatement have
\* the same type.
SegmentsAlternate ==
  Parsed =>
    \A k \in 1..(Len(probe.segments) - 1) :
      probe.segments[k].type # probe.segments[k + 1].type

\* The contents of the segments, one after the other.
RECURSIVE ConcatContents(_)
ConcatContents(segments) ==
  IF segments = << >>
  THEN << >>
  ELSE Head(segments).content \o ConcatContents(Tail(segments))

IsNotDelimiter(c) == c # "$"

\* C39: no returned segment is empty, none contains the delimiter, and the
\* contents of the segments in order are the input without its delimiters.
ParseLosesNoText ==
  Parsed =>
    /\ \A k \in 1..Len(probe.segments) :
         /\ Len(probe.segments[k].content) > 0
         /\ \A j \in 1..Len(probe.segments[k].content) :
              probe.segments[k].content[j] # "$"
    /\ ConcatContents(probe.segments) = SelectSeq(probe.input, IsNotDelimiter)

\* "a$ $a": text before, between and after the delimiters is all kept.
TextAroundDelimitersWitness ==
  /\ Parsed
  /\ probe.input = << "a", "$", " ", "$", "a" >>
  /\ Len(probe.segments) = 3
  /\ ConcatContents(probe.segments) = << "a", " ", "a" >>

\* ------------------------------------------ properties of the engine loading
\* C32: a render made before any initialization of the engine has completed
\* does not call compile and returns a placeholder, and a render never waits
\* for the loading: it can be made in every state.
RenderDefersUntilEngineReady ==
  /\ (shown.component # "none" /\ shown.initDone = 0) =>
       /\ ~shown.compiled
       /\ shown.output \in { "Loading...", "<div>Loading...</div>" }
  /\ engine.compileCalls > 0 => engine.initDone > 0
  /\ engine.compileCalls < MaxCompiles =>
       ENABLED RenderMathExpression /\ ENABLED RenderProvider

\* A MathExpression rendered under the provider's ref while mod.default()
\* is awaited.
RenderWhileInitializingWitness ==
  /\ shown.component = "MathExpression"
  /\ shown.initPending
  /\ shown.initDone = 0
  /\ shown.initCalls > 0
  /\ shown.output = "Loading..."

\* C33: for one engine reference the engine module is initialized at most
\* once, whatever invocations of loadWasm are made.
EngineInitializedAtMostOnce == engine.initCalls <= 1

\* ------------------------------------- invariants of the proof-discovery graph
\* initialize has returned at least once: only it sets the statement.
Initialized == proofDiscoveryState.statement # nullProofDiscoveryState.statement

\* C34: in every state after the first initialize, currentNodeId is a node of
\* the graph, also after actions that failed.
CurrentNodeExistsAfterInitialize ==
  Initialized => proofDiscoveryState.currentNodeId \in NodeIds(proofDiscoveryState.graph)

\* After an initialize and a transition, a focus on a node that is not in
\* the graph has failed.
FailedFocusAfterTransitionWitness ==
  /\ Initialized
  /\ LastAction("focus")
  /\ glast.threw
  /\ glast.action.nodeId \notin NodeIds(glast.before.graph)
  /\ proofDiscoveryState.currentNodeId = 1

\* The two ends of an edge, direction ignored.
Ends(edge) == { edge.source, edge.target }

\* The nodes joined to a node of the set by an edge, with the set itself.
Neighbourhood(g, nodes) ==
  nodes \cup { n \in NodeIds(g) :
                 \E i \in 1..Size(g) : n \in Ends(g.edges[i]) /\ Ends(g.edges[i]) \cap nodes # {} }

\* The nodes connected to the nodes of the set, found in at most k rounds.
RECURSIVE ConnectedTo(_, _, _)
ConnectedTo(g, nodes, k) ==
  IF k = 0 THEN nodes ELSE ConnectedTo(g, Neighbourhood(g, nodes), k - 1)

IsUndirectedTree(g) ==
  /\ Size(g) = Order(g) - 1
  /\ ConnectedTo(g, { 0 } \cap NodeIds(g), Order(g)) = NodeIds(g)
  /\ \A i \in 1..Size(g) : g.edges[i].source # g.edges[i].target
  /\ \A i, j \in 1..Size(g) : Ends(g.edges[i]) = Ends(g.edges[j]) => i = j

\* C35: in every state after an initialize the graph, direction ignored, is a
\* tree: one edge fewer than nodes, every node connected to node 0, no
\* self-loop and no two edges between the same two nodes.
GraphIsTree == Initialized => IsUndirectedTree(proofDiscoveryState.graph)

\* A tree that branches at node 0 and has an undirected edge: the last
\* transition was made from node 0 after a focus back on it.
BranchingTreeWitness ==
  /\ Initialized
  /\ LastAction("transition")
  /\ ~glast.threw
  /\ glast.before.currentNodeId = 0
  /\ Order(proofDiscoveryState.graph) = 3
  /\ \A i \in 1..Size(proofDiscoveryState.graph) :
       0 \in Ends(proofDiscoveryState.graph.edges[i])
  /\ \E i \in 1..Size(proofDiscoveryState.graph) :
       proofDiscoveryState.graph.edges[i].undirected

\* ------------------------------------------- statement and formula selections
\* One payload is a full statement and the other a sub-expression.
MixedPayloads(p, q) ==
  \/ IsFullStatementPayload(p) /\ IsSubExpressionPayload(q)
  \/ IsSubExpressionPayload(p) /\ IsFullStatementPayload(q)

\* C36: no state holds a full-statement selection and a sub-expression
\* selection at one proof state id, location and address; a toggle of one
\* kind at a position that holds the other kind removes an entry and adds none.
NoMixedPayloadsAtOnePosition ==
  /\ \A i, j \in 1..Len(selections) :
       MixedPayloads(selections[i].selection, selections[j].selection)
         => ~SamePosition(selections[i], selections[j])
  /\ ( /\ last.type = "TOGGLE_SELECTION"
       /\ \E i \in 1..Len(last.before) :
            /\ SamePosition(last.before[i], last.selection)
            /\ MixedPayloads(last.before[i].selection, last.selection.selection) )
     => /\ Len(selections) = Len(last.before) - 1
        /\ Range(selections) \subseteq Range(last.before)

\* A sub-expression was toggled at a position that held a full statement.
SubExpressionToggledOnStatementWitness ==
  /\ last.type = "TOGGLE_SELECTION"
  /\ IsSubExpressionPayload(last.selection.selection)
  /\ \E i \in 1..Len(last.before) :
       /\ SamePosition(last.before[i], last.selection)
       /\ IsFullStatementPayload(last.before[i].selection)
  /\ Len(selections) = Len(last.before) - 1

\* C37: a segment is rendered as selected exactly when the selection set holds
\* an entry that the toggle takes to be equal to the segment's own selection,
\* that is, exactly when a click on the segment would remove an entry.
SelectedExactlyWhenClickRemoves ==
  \A part \in RenderedParts, addr \in SegmentAddresses :
    IsSelected(selections, render, part, addr)
      <=> FindIndex(selections, StatementSelection(render, part, addr)) >= 0

\* --------------------------------------------------- properties of the slots
\* The formulas have the same location kind and label, address and index.
SameFormulaKey(a, b) ==
  /\ a.location.kind = b.location.kind
  /\ a.location.label = b.location.label
  /\ areStatementAddressesEqual(a.address, b.address)
  /\ a.index = b.index

\* C38: in a rendered proof context with unique variable names and unique
\* labels within each list, no two formulas rendered have the same location
\* kind, location label, address and formula index.
FormulaKeysAreDistinct ==
  probe.fn = "ProofStateContext" =>
    \A i, j \in 1..Len(probe.formulas) :
      SameFormulaKey(probe.formulas[i], probe.formulas[j]) => i = j
====
